---- MODULE Spec2Model ----
(***************************************************************************)
(* A model of ocr_app.py: the engine registry and adapter (OCREngine), the *)
(* Tk application object (PDFOCRApp) with its handlers, the background     *)
(* threads the three OCR operations start, and the callbacks those threads *)
(* schedule on the interactive thread with root.after.                     *)
(*                                                                         *)
(* Every optional value is a record, Python's None included, so that any   *)
(* two values of the model can be compared.                                *)
(***************************************************************************)
EXTENDS Integers, Sequences, FiniteSets, TLC

None == [tag |-> "None"]

---------------------------------------------------------------------------
(* Bounds of the model.                                                    *)

\* the largest page count of a file the user can pick
MaxPages == 2
\* how many times fitz.open returns a document in one run
MaxOpens == 2
\* canvas coordinates of mouse events are 0..MaxCoord
MaxCoord == 1
\* how many OCR operations are dispatched in one run
MaxOps == 1
\* how many OCR operations one run of SpecReader, SpecAdapter and
\* SpecDelivery starts
MaxReaderOps == 2
\* the longest recognized text of one page, in lines
MaxTextLines == 2

---------------------------------------------------------------------------
(* Constants of the program. The zoom factor is counted in quarters: every *)
(* value the code computes is k * 0.25 with k an integer, and these are    *)
(* exact in binary floating point.                                         *)

\* zoom_level = 1.0
ZoomInit == 4
\* + 0.25 and - 0.25
ZoomStep == 1
\* min(3.0, ...)
ZoomMax == 12
\* max(0.25, ...)
ZoomMin == 1
\* fitz.Matrix(1.5, 1.5) of the whole-document loop is the scale the viewer
\* uses at zoom_level 1.0 (zoom_level * 1.5)
DocZoom == 4

TESSERACT == "Tesseract"
EASYOCR == "EasyOCR"
WINDOWS_OCR == "Windows OCR"

---------------------------------------------------------------------------
(* The files the user can pick, as the PDF library sees them: fitz.open    *)
(* raises on an unreadable one; a readable one has `pages` pages (0 for an *)
(* empty or damaged page tree) and at most one page, `bad`, whose          *)
(* rendering raises (-1: none). Rendering is deterministic.                *)

Unreadable == [pages |-> 0, bad |-> -1, readable |-> FALSE]

Files ==
    {f \in [pages : 0..MaxPages, bad : -1..MaxPages, readable : {TRUE}] :
        f.bad < f.pages}
    \cup {Unreadable}

\* an exception object, by type and message
Exc(type, what) == [type |-> type, what |-> what]

\* a dialog of tkinter.messagebox
Dialog(kind, title, exc) == [kind |-> kind, title |-> title, msg |-> exc]

WarnOpenFirst ==
    Dialog("warning", "Warning", Exc("text", "Please open a PDF first."))
WarnSelectFirst ==
    Dialog("warning", "Warning", Exc("text", "Please make a selection first."))

Points == [x : 0..MaxCoord, y : 0..MaxCoord]

Min(a, b) == IF a <= b THEN a ELSE b
Max(a, b) == IF a >= b THEN a ELSE b

---------------------------------------------------------------------------
(* Engine registry.                                                        *)

\* what `import easyocr` / `import winocr` does on this machine
ImportOutcomes == {"ok", "ImportError", "OtherError"}

\* get_available_engines if it probed the platform engine before the neural
get_available_engines_platform_first(d) ==
    LET e1 == <<TESSERACT>>
        e2 == IF d.winocr = "ok" THEN Append(e1, WINDOWS_OCR) ELSE e1
        e3 == IF d.easyocr = "ok" THEN Append(e2, EASYOCR) ELSE e2
    IN  IF d.easyocr = "OtherError" \/ d.winocr = "OtherError"
        THEN [raised |-> TRUE, value |-> <<>>]
        ELSE [raised |-> FALSE, value |-> e3]

\* OCREngine.get_available_engines: the list, or the exception that leaves it
get_available_engines(d) ==
    LET e1 == <<TESSERACT>>
        e2 == IF d.easyocr = "ok" THEN Append(e1, EASYOCR) ELSE e1
        e3 == IF d.winocr = "ok" THEN Append(e2, WINDOWS_OCR) ELSE e2
    IN  IF d.easyocr = "OtherError" \/ d.winocr = "OtherError"
        THEN [raised |-> TRUE, value |-> <<>>]
        ELSE [raised |-> FALSE, value |-> e3]

---------------------------------------------------------------------------
VARIABLES
    deps,               \* outcome of importing each optional dependency
    app,                \* "running", or "init_failed" when __init__ raised
    available_engines,  \* self.available_engines
    selected_engine,    \* self.selected_engine (the combobox variable)
    pdf_document,       \* self.pdf_document: None or a document handle
    current_page,       \* self.current_page
    total_pages,        \* self.total_pages
    current_image,      \* self.current_image: None or a bitmap
    selection_start,    \* self.selection_start: None or a point
    selection_rect,     \* self.selection_rect: None or a rectangle
    zoom_level,         \* self.zoom_level, in quarters
    status_var,         \* self.status_var
    text_output,        \* self.text_output: the lines of the output pane
    opens,              \* documents fitz.open has returned so far
    saved,              \* what is in the file save_text writes to, or None
                        \* as long as it has not opened one
    ui,                 \* the handlers the interactive thread is inside of,
                        \* innermost first; <<>> in the main loop
    messagebox,         \* the dialog the handler now running, or else the
                        \* last one, has shown, or None
    traceback,          \* the exception that left that handler (Tk's
                        \* report_callback_exception prints it), or None
    rendered,           \* whether that handler ran display_page to its end
    ever_loaded,        \* whether open_pdf has reached "Loaded" so far
    threads,            \* the background threads, in the order they started
    after_queue,        \* callbacks scheduled with root.after(0, ...), oldest first
    easyocr_reader,     \* the module global _easyocr_reader
    readers_built       \* how many times easyocr.Reader(...) has run

uivars == <<deps, app, available_engines, selected_engine, pdf_document,
            current_page, total_pages, current_image, selection_start,
            selection_rect, zoom_level, status_var, text_output, opens,
            saved, ui, messagebox, traceback, rendered,
            ever_loaded>>

bgvars == <<threads, after_queue, easyocr_reader, readers_built>>

vars == <<uivars, bgvars>>

\* the value of the status line: which message, with which values in it. The
\* path after "Loaded:" and "Saved to:" and the corners after "Selection:"
\* are left out (None).
Status(tag, arg) == [tag |-> tag, arg |-> arg]


---------------------------------------------------------------------------
(* The PDF library, as the code uses it. A document handle is               *)
(* [file, id, closed]; only self.pdf_document ever refers to one, so the    *)
(* closed flag travels with the reference. Document defines __len__ as its  *)
(* page count and no __bool__: `if doc:` is false for a document without    *)
(* pages, and raises ValueError on a closed one, as does every other use.   *)

Handle(f, k) == [file |-> f, id |-> k, closed |-> FALSE]

DocumentClosed == Exc("ValueError", "document closed")
PageNotInDocument == Exc("IndexError", "page not in document")
RenderFailed == Exc("RuntimeError", "cannot render page")

\* bool(doc)
Truth(d) ==
    IF d = None THEN [raised |-> None, value |-> FALSE]
    ELSE IF d.closed THEN [raised |-> DocumentClosed, value |-> FALSE]
    ELSE [raised |-> None, value |-> d.file.pages > 0]

\* a bitmap: the page it shows, of which document, at which zoom, and the
\* crop box when it is a crop
Bitmap(d, page, zoom) ==
    [doc |-> d.id, file |-> d.file, page |-> page, zoom |-> zoom, crop |-> None]

\* doc[page].get_pixmap(matrix).tobytes("ppm") opened as an image
Render(d, page, zoom) ==
    IF d = None
    THEN [raised |-> Exc("TypeError", "NoneType is not subscriptable"),
          image |-> None]
    ELSE IF d.closed THEN [raised |-> DocumentClosed, image |-> None]
    ELSE IF page >= d.file.pages
    THEN [raised |-> PageNotInDocument, image |-> None]
    ELSE IF page = d.file.bad THEN [raised |-> RenderFailed, image |-> None]
    ELSE [raised |-> None, image |-> Bitmap(d, page, zoom)]

---------------------------------------------------------------------------
(* PDFOCRApp: the handlers of the interactive thread. A handler that does  *)
(* not run to its end in one step leaves a frame on `ui`: open_pdf between *)
(* closing the old document and fitz.open returning, an OCR handler inside *)
(* its root.update(), save_text inside its file dialog. root.update() is   *)
(* the Tk event loop: handlers of pending events and callbacks of          *)
(* root.after run inside it, on top of the frame; the file dialog holds    *)
(* the grab, so only callbacks run inside it; nothing runs on the          *)
(* interactive thread while it is in fitz.open.                            *)

\* open_pdf, between line 255 and line 256. `doc` is not in the code: it
\* records what self.pdf_document was when the handler began.
OpenFrame(f) == [pc |-> "fitz.open", file |-> f, doc |-> pdf_document]

\* what self.current_image, self.selection_rect, self.pdf_document and
\* self.total_pages are when an OCR handler has checked them
Snapshot ==
    [image |-> current_image, rect |-> selection_rect,
     doc |-> pdf_document, pages |-> total_pages]

\* an OCR handler inside root.update(): the closure do_ocr it is about to
\* start (kind, the engine read from the combobox). `disp` is not in the
\* code.
UpdateFrame(kind, engine) ==
    [pc |-> "update", kind |-> kind, engine |-> engine, disp |-> Snapshot]

\* save_text inside filedialog.asksaveasfilename, with its local `text`
SaveFrame(text) == [pc |-> "asksaveasfilename", text |-> text]

\* the interactive thread takes events: it is in mainloop or in the
\* root.update() of an OCR handler
InEventLoop == IF ui = <<>> THEN TRUE ELSE Head(ui).pc = "update"

\* the interactive thread runs callbacks of root.after: in an event loop, or
\* in the loop of the file dialog
RunsCallbacks ==
    IF ui = <<>> THEN TRUE ELSE Head(ui).pc \in {"update", "asksaveasfilename"}

\* an event is taken from the event loop and its handler returns to it
Event ==
    /\ InEventLoop
    /\ UNCHANGED ui

\* display_page if it rendered the page and left the selection alone
display_page_keeps_selection(d, page, zoom) ==
    LET t == Truth(d)
        r == Render(d, page, zoom)
        exc == IF t.raised # None THEN t.raised
               ELSE IF ~t.value THEN None
               ELSE r.raised
        done == t.raised = None /\ t.value /\ r.raised = None
    IN  [raised |-> exc, rendered |-> done,
         image |-> IF done THEN r.image ELSE current_image,
         start |-> selection_start, rect |-> selection_rect]

\* display_page, called with self.pdf_document = d, self.current_page = page
\* and self.zoom_level = zoom: the exception that leaves it (or None), and
\* the bitmap and the selection it leaves behind
display_page(d, page, zoom) ==
    LET untouched(exc) ==
            [raised |-> exc, rendered |-> FALSE, image |-> current_image,
             start |-> selection_start, rect |-> selection_rect]
        t == Truth(d)
        r == Render(d, page, zoom)
    IN  IF t.raised # None THEN untouched(t.raised)
        ELSE IF ~t.value THEN untouched(None)
        ELSE IF r.raised # None THEN untouched(r.raised)
        ELSE [raised |-> None, rendered |-> TRUE, image |-> r.image,
              start |-> None, rect |-> None]

\* the interactive thread has run a handler, which showed `dialog`, which
\* `exc` left, and which did (r) or did not reach the end of display_page
Handled(dialog, exc, r) ==
    /\ app = "running"
    /\ UNCHANGED <<deps, app, available_engines>>
    /\ messagebox' = dialog
    /\ traceback' = exc
    /\ rendered' = r

\* what the handlers of paging, zoom, selection and file opening leave alone
NoOcr ==
    UNCHANGED <<selected_engine, text_output, saved, threads, after_queue,
                easyocr_reader, readers_built>>

\* the effect of display_page at the end of a handler
Displayed(dp) ==
    /\ Event
    /\ NoOcr
    /\ current_image' = dp.image
    /\ selection_start' = dp.start
    /\ selection_rect' = dp.rect
    /\ Handled(None, dp.raised, dp.rendered)

OpenFailed(exc) == Dialog("error", "Error", exc)

\* open_pdf up to line 255, the user picking file f in the dialog (None: the
\* dialog is cancelled): the document that is open is closed
open_pdf(f) ==
    LET t == Truth(pdf_document)
    IN  /\ InEventLoop
        /\ NoOcr
        /\ UNCHANGED <<current_page, total_pages, current_image,
                       selection_start, selection_rect, zoom_level,
                       status_var, opens, ever_loaded>>
        /\ \/ /\ f = None
              /\ Handled(None, None, FALSE)
              /\ UNCHANGED <<pdf_document, ui>>
           \/ /\ f # None
              /\ t.raised # None
              /\ Handled(OpenFailed(t.raised), None, FALSE)
              /\ UNCHANGED <<pdf_document, ui>>
           \/ /\ f # None
              /\ t.raised = None
              /\ f.readable => opens < MaxOpens
              /\ pdf_document' = IF t.value
                                 THEN [pdf_document EXCEPT !.closed = TRUE]
                                 ELSE pdf_document
              /\ ui' = <<OpenFrame(f)>> \o ui
              /\ Handled(None, None, FALSE)

\* open_pdf from line 256: fitz.open returns or raises, and the handler runs
\* to its end
fitz_open ==
    LET f == Head(ui).file
        new == Handle(f, opens + 1)
        dp == display_page(new, 0, ZoomInit)
    IN  /\ ui # <<>>
        /\ Head(ui).pc = "fitz.open"
        /\ ui' = Tail(ui)
        /\ NoOcr
        /\ IF ~ f.readable
           THEN /\ Handled(OpenFailed(Exc("FileDataError", "cannot open file")),
                           None, FALSE)
                /\ UNCHANGED <<pdf_document, current_page, total_pages,
                               current_image, selection_start, selection_rect,
                               zoom_level, status_var, opens, ever_loaded>>
           ELSE /\ opens' = opens + 1
                /\ pdf_document' = new
                /\ total_pages' = f.pages
                /\ current_page' = 0
                /\ zoom_level' = ZoomInit
                /\ current_image' = dp.image
                /\ selection_start' = dp.start
                /\ selection_rect' = dp.rect
                /\ IF dp.raised # None
                   THEN /\ Handled(OpenFailed(dp.raised), None, FALSE)
                        /\ UNCHANGED <<status_var, ever_loaded>>
                   ELSE /\ Handled(None, None, dp.rendered)
                        /\ status_var' = Status("Loaded", None)
                        /\ ever_loaded' = TRUE

\* the test `self.pdf_document and <cond>` of prev_page and next_page
NavGuard(cond) ==
    LET t == Truth(pdf_document)
    IN  [raised |-> t.raised, value |-> t.value /\ cond]

\* a handler that raised or returned before it changed anything
Nothing(exc) ==
    /\ Event
    /\ NoOcr
    /\ Handled(None, exc, FALSE)
    /\ UNCHANGED <<current_image, selection_start, selection_rect>>

prev_page ==
    LET g == NavGuard(current_page > 0)
    IN  /\ IF g.raised = None /\ g.value
           THEN /\ current_page' = current_page - 1
                /\ Displayed(display_page(pdf_document, current_page - 1, zoom_level))
           ELSE /\ Nothing(g.raised)
                /\ UNCHANGED current_page
        /\ UNCHANGED <<pdf_document, total_pages, zoom_level, status_var,
                       opens, ever_loaded>>

next_page ==
    LET g == NavGuard(current_page < total_pages - 1)
    IN  /\ IF g.raised = None /\ g.value
           THEN /\ current_page' = current_page + 1
                /\ Displayed(display_page(pdf_document, current_page + 1, zoom_level))
           ELSE /\ Nothing(g.raised)
                /\ UNCHANGED current_page
        /\ UNCHANGED <<pdf_document, total_pages, zoom_level, status_var,
                       opens, ever_loaded>>

\* zoom_in if it did not clamp
zoom_in_unclamped ==
    LET z == zoom_level + ZoomStep
    IN  /\ zoom_level' = z
        /\ Displayed(display_page(pdf_document, current_page, z))
        /\ UNCHANGED <<pdf_document, current_page, total_pages, status_var,
                       opens, ever_loaded>>

zoom_in ==
    LET z == Min(ZoomMax, zoom_level + ZoomStep)
    IN  /\ zoom_level' = z
        /\ Displayed(display_page(pdf_document, current_page, z))
        /\ UNCHANGED <<pdf_document, current_page, total_pages, status_var,
                       opens, ever_loaded>>

zoom_out ==
    LET z == Max(ZoomMin, zoom_level - ZoomStep)
    IN  /\ zoom_level' = z
        /\ Displayed(display_page(pdf_document, current_page, z))
        /\ UNCHANGED <<pdf_document, current_page, total_pages, status_var,
                       opens, ever_loaded>>

\* the mouse handlers, the event at canvas point p. on_mouse_drag only
\* redraws the canvas item tagged "selection", which no handler reads back.
on_mouse_press(p) ==
    /\ Event
    /\ Handled(None, None, FALSE)
    /\ NoOcr
    /\ selection_start' = IF current_image = None THEN selection_start ELSE p
    /\ UNCHANGED <<pdf_document, current_page, total_pages, current_image,
                   selection_rect, zoom_level, status_var, opens, ever_loaded>>

on_mouse_drag(p) ==
    /\ Event
    /\ Handled(None, None, FALSE)
    /\ NoOcr
    /\ UNCHANGED <<pdf_document, current_page, total_pages, current_image,
                   selection_start, selection_rect, zoom_level, status_var,
                   opens, ever_loaded>>

\* the rectangle of on_mouse_release if it stored the two points as given
Normalized_as_given(s, p, img) ==
    [x1 |-> s.x, y1 |-> s.y, x2 |-> p.x, y2 |-> p.y, img |-> img]

\* the rectangle on_mouse_release stores; `img` is not a field of the tuple in
\* the code: it records the bitmap that was displayed when it was stored
Normalized(s, p, img) ==
    [x1 |-> Min(s.x, p.x), y1 |-> Min(s.y, p.y),
     x2 |-> Max(s.x, p.x), y2 |-> Max(s.y, p.y), img |-> img]

on_mouse_release(p) ==
    /\ Event
    /\ Handled(None, None, FALSE)
    /\ NoOcr
    /\ IF selection_start = None
       THEN UNCHANGED <<selection_rect, status_var>>
       ELSE LET r == Normalized(selection_start, p, current_image)
            IN  /\ selection_rect' = r
                /\ status_var' = Status("Selection", None)
    /\ UNCHANGED <<pdf_document, current_page, total_pages, current_image,
                   selection_start, zoom_level, opens, ever_loaded>>

clear_selection ==
    /\ Event
    /\ Handled(None, None, FALSE)
    /\ NoOcr
    /\ selection_rect' = None
    /\ selection_start' = None
    /\ status_var' = Status("Selection cleared.", None)
    /\ UNCHANGED <<pdf_document, current_page, total_pages, current_image,
                   zoom_level, opens, ever_loaded>>

\* the user picks engine e in the read-only combobox
select_engine(e) ==
    /\ Event
    /\ Handled(None, None, FALSE)
    /\ e \in {available_engines[k] : k \in DOMAIN available_engines}
    /\ selected_engine' = e
    /\ UNCHANGED <<text_output, saved, threads, after_queue, easyocr_reader,
                   readers_built>>
    /\ UNCHANGED <<pdf_document, current_page, total_pages, current_image,
                   selection_start, selection_rect, zoom_level, status_var,
                   opens, ever_loaded>>

---------------------------------------------------------------------------
(* Text. A string is the sequence of its pieces: "\n" is one piece, and so *)
(* is each literal part of a page header; a page number is the sequence of *)
(* its decimal digits.                                                     *)

NL == "\n"

Digit(d) == SubSeq(<<"0", "1", "2", "3", "4", "5", "6", "7", "8", "9">>,
                   d + 1, d + 1)

RECURSIVE Dec(_)
\* str(n) for n >= 0
Dec(n) == IF n < 10 THEN Digit(n) ELSE Dec(n \div 10) \o Digit(n % 10)

\* f"--- Page {page_num + 1} ---"
Header(page_num) == <<"--- Page ">> \o Dec(page_num + 1) \o <<" ---">>

\* f"--- Page {page_num + 1} ---\n{text}\n"
Section(page_num, text) == Header(page_num) \o <<NL>> \o text \o <<NL>>

RECURSIVE join_without_separator(_, _)
\* sep.join(parts) if it put nothing between the parts
join_without_separator(sep, parts) ==
    IF parts = <<>> THEN <<>>
    ELSE parts[1] \o join_without_separator(sep, Tail(parts))

RECURSIVE Join(_, _)
\* sep.join(parts)
Join(sep, parts) ==
    IF parts = <<>> THEN <<>>
    ELSE IF Len(parts) = 1 THEN parts[1]
    ELSE parts[1] \o sep \o Join(sep, Tail(parts))

---------------------------------------------------------------------------
(* Engine adapter.                                                         *)

UnknownEngine(name) == Exc("ValueError", "Unknown OCR engine")

\* perform_ocr if it fell back to the local engine for a name it does not know
perform_ocr_local_by_default(engine_name) ==
    IF engine_name = EASYOCR
    THEN [raised |-> None, pc |-> "get_easyocr_reader"]
    ELSE IF engine_name = WINDOWS_OCR
    THEN [raised |-> None, pc |-> "_windows_ocr"]
    ELSE [raised |-> None, pc |-> "_tesseract_ocr"]

\* OCREngine.perform_ocr: the backend it calls first, or the exception it
\* raises. The neural backend starts in get_easyocr_reader.
perform_ocr(engine_name) ==
    IF engine_name = TESSERACT
    THEN [raised |-> None, pc |-> "_tesseract_ocr"]
    ELSE IF engine_name = EASYOCR
    THEN [raised |-> None, pc |-> "get_easyocr_reader"]
    ELSE IF engine_name = WINDOWS_OCR
    THEN [raised |-> None, pc |-> "_windows_ocr"]
    ELSE [raised |-> UnknownEngine(engine_name), pc |-> "except"]

BackendPcs == {"_tesseract_ocr", "readtext", "_windows_ocr"}

EngineFailure == Exc("RuntimeError", "backend failed")

---------------------------------------------------------------------------
(* Background threads. A thread is a record: the closure do_ocr (kind, the *)
(* captured engine), its place (pc) and its locals. Four fields are not    *)
(* in the code: `disp` records what self.current_image,                    *)
(* self.selection_rect, self.pdf_document and self.total_pages were when   *)
(* the handler that starts the thread checked them, `calls` the bitmaps    *)
(* the engine was called with, `texts` what it returned, and `reported`    *)
(* how many progress reports the thread has scheduled.                     *)

Thread(kind, engine, disp) ==
    [kind |-> kind, engine |-> engine, pc |-> "start", disp |-> disp,
     rect |-> None, image |-> None, page |-> None, reader |-> None,
     n |-> 0, page_num |-> 0, all_text |-> <<>>, calls |-> <<>>,
     texts |-> <<>>, reported |-> 0, exc |-> None]

\* a callback whose lambda has lost the text it was to bind
Callback_without_text(cb, w, text, p) ==
    [cb |-> cb, w |-> w, text |-> <<>>, p |-> p]

\* a callback handed to root.after(0, ...): which lambda of which thread, with
\* the values the lambda has bound (text, p); what it reads from self it reads
\* when it runs
Callback(cb, w, text, p) == [cb |-> cb, w |-> w, text |-> text, p |-> p]

\* thread i raises exc inside the try: the first statement of the handler
\* schedules the error dialog
Raise(i, exc) ==
    /\ threads' = [threads EXCEPT ![i].pc = "except", ![i].exc = exc]
    /\ after_queue' = Append(after_queue, Callback("showerror", i, <<>>, 0))

\* thread i goes on to perform_ocr(image, engine)
Call(i, image) ==
    LET d == perform_ocr(threads[i].engine)
    IN  IF d.raised # None
        THEN Raise(i, d.raised)
        ELSE /\ threads' = [threads EXCEPT ![i].pc = d.pc, ![i].image = image]
             /\ UNCHANGED after_queue

Background(i) ==
    /\ app = "running"
    /\ i \in DOMAIN threads
    /\ UNCHANGED uivars

\* ocr_current_page.do_ocr: the argument self.current_image is read
page_read(i) ==
    /\ Background(i)
    /\ threads[i].kind = "page" /\ threads[i].pc = "start"
    /\ Call(i, current_image)
    /\ UNCHANGED <<easyocr_reader, readers_built>>

\* ocr_selection.do_ocr: x1, y1, x2, y2 = self.selection_rect
selection_read(i) ==
    /\ Background(i)
    /\ threads[i].kind = "selection" /\ threads[i].pc = "start"
    /\ IF selection_rect = None
       THEN Raise(i, Exc("TypeError", "cannot unpack NoneType"))
       ELSE /\ threads' = [threads EXCEPT ![i].pc = "crop",
                                          ![i].rect = selection_rect]
            /\ UNCHANGED after_queue
    /\ UNCHANGED <<easyocr_reader, readers_built>>

\* image.crop((int(x1), int(y1), int(x2), int(y2)))
Crop(image, r) ==
    [image EXCEPT !.crop = [x1 |-> r.x1, y1 |-> r.y1, x2 |-> r.x2, y2 |-> r.y2]]

\* ocr_selection.do_ocr: self.current_image is read and cropped
selection_crop(i) ==
    /\ Background(i)
    /\ threads[i].kind = "selection" /\ threads[i].pc = "crop"
    /\ Call(i, Crop(current_image, threads[i].rect))
    /\ UNCHANGED <<easyocr_reader, readers_built>>

\* what the whole-document thread hands over when its loop has ended
Finished(i, all_text) ==
    /\ threads' = [threads EXCEPT ![i].pc = "done", ![i].all_text = all_text]
    /\ after_queue' = Append(after_queue,
           Callback("result", i, Join(<<NL>>, all_text), 0))

\* ocr_entire_document.do_ocr: range(self.total_pages) is evaluated
document_start(i) ==
    /\ Background(i)
    /\ threads[i].kind = "document" /\ threads[i].pc = "start"
    /\ IF total_pages = 0
       THEN Finished(i, <<>>)
       ELSE /\ threads' = [threads EXCEPT ![i].pc = "progress",
                                          ![i].n = total_pages]
            /\ UNCHANGED after_queue
    /\ UNCHANGED <<easyocr_reader, readers_built>>

\* the loop of ocr_entire_document if it scheduled no progress report
document_progress_unreported(i) ==
    /\ Background(i)
    /\ threads[i].kind = "document" /\ threads[i].pc = "progress"
    /\ threads' = [threads EXCEPT ![i].pc = "load"]
    /\ UNCHANGED <<after_queue, easyocr_reader, readers_built>>

\* the progress report of the page, scheduled with p = page_num
document_progress(i) ==
    /\ Background(i)
    /\ threads[i].kind = "document" /\ threads[i].pc = "progress"
    /\ threads' = [threads EXCEPT ![i].pc = "load",
                                  ![i].reported = threads[i].reported + 1]
    /\ after_queue' = Append(after_queue,
           Callback("progress", i, <<>>, threads[i].page_num))
    /\ UNCHANGED <<easyocr_reader, readers_built>>

\* doc[page_num]: the page object, which refers to its document
LoadPage(d, page_num) ==
    IF d = None
    THEN [raised |-> Exc("TypeError", "NoneType is not subscriptable"),
          page |-> None]
    ELSE IF d.closed THEN [raised |-> DocumentClosed, page |-> None]
    ELSE IF page_num >= d.file.pages
    THEN [raised |-> PageNotInDocument, page |-> None]
    ELSE [raised |-> None, page |-> [doc |-> d, num |-> page_num]]

\* the document a page object refers to, as it is now: open_pdf closes a
\* document that has pages before it puts another in its place
Parent(page) ==
    IF pdf_document # None /\ pdf_document.id = page.doc.id
    THEN pdf_document
    ELSE [page.doc EXCEPT !.closed = TRUE]

\* page = self.pdf_document[page_num]
document_load(i) ==
    LET l == LoadPage(pdf_document, threads[i].page_num)
    IN  /\ Background(i)
        /\ threads[i].kind = "document" /\ threads[i].pc = "load"
        /\ IF l.raised # None
           THEN Raise(i, l.raised)
           ELSE /\ threads' = [threads EXCEPT ![i].pc = "get_pixmap",
                                              ![i].page = l.page]
                /\ UNCHANGED after_queue
        /\ UNCHANGED <<easyocr_reader, readers_built>>

\* page.get_pixmap(matrix=matrix) at the fixed scale, opened as an image and
\* handed to perform_ocr
document_render(i) ==
    LET page == threads[i].page
        r == Render(Parent(page), page.num, DocZoom)
    IN  /\ Background(i)
        /\ threads[i].kind = "document" /\ threads[i].pc = "get_pixmap"
        /\ IF r.raised # None THEN Raise(i, r.raised) ELSE Call(i, r.image)
        /\ UNCHANGED <<easyocr_reader, readers_built>>

\* get_easyocr_reader: the test `_easyocr_reader is None`
get_easyocr_reader(i) ==
    /\ Background(i)
    /\ threads[i].pc = "get_easyocr_reader"
    /\ threads' = [threads EXCEPT ![i].pc = IF easyocr_reader = None
                                            THEN "Reader" ELSE "return"]
    /\ UNCHANGED <<after_queue, easyocr_reader, readers_built>>

\* get_easyocr_reader, lines 30-31: easyocr.Reader(['en'], gpu=False) is
\* constructed and assigned to the global
construct_reader(i) ==
    /\ Background(i)
    /\ threads[i].pc = "Reader"
    /\ readers_built' = readers_built + 1
    /\ easyocr_reader' = [id |-> readers_built + 1]
    /\ threads' = [threads EXCEPT ![i].pc = "return"]
    /\ UNCHANGED after_queue

\* what `import easyocr` or easyocr.Reader(...) raises when no reader can be
\* built
ReaderFailure == Exc("RuntimeError", "reader not built")

\* get_easyocr_reader, lines 30-31: the import or the constructor raises.
\* Nothing is assigned to the global; the exception leaves get_easyocr_reader,
\* _easyocr_ocr and perform_ocr and reaches the except clause of do_ocr
construct_reader_raises(i) ==
    /\ Background(i)
    /\ threads[i].pc = "Reader"
    /\ Raise(i, ReaderFailure)
    /\ UNCHANGED <<easyocr_reader, readers_built>>

\* get_easyocr_reader, line 32: the global is read again and returned
return_reader(i) ==
    /\ Background(i)
    /\ threads[i].pc = "return"
    /\ threads' = [threads EXCEPT ![i].pc = "readtext",
                                  ![i].reader = easyocr_reader]
    /\ UNCHANGED <<after_queue, easyocr_reader, readers_built>>

\* the backend returns `text` for the bitmap
backend_returns(i, text) ==
    LET t == threads[i]
        calls == Append(t.calls, t.image)
        texts == Append(t.texts, text)
        all_text == Append(t.all_text, Section(t.page_num, text))
    IN  /\ Background(i)
        /\ t.pc \in BackendPcs
        /\ IF t.kind # "document"
           THEN /\ threads' = [threads EXCEPT ![i].pc = "done",
                                              ![i].texts = texts,
                                              ![i].calls = calls]
                /\ after_queue' = Append(after_queue,
                                         Callback("result", i, text, 0))
           ELSE IF t.page_num + 1 < t.n
           THEN /\ threads' = [threads EXCEPT ![i].pc = "progress",
                                              ![i].calls = calls,
                                              ![i].texts = texts,
                                              ![i].all_text = all_text,
                                              ![i].page_num = t.page_num + 1]
                /\ UNCHANGED after_queue
           ELSE /\ threads' = [threads EXCEPT ![i].pc = "done",
                                              ![i].calls = calls,
                                              ![i].texts = texts,
                                              ![i].all_text = all_text]
                /\ after_queue' = Append(after_queue,
                       Callback("result", i, Join(<<NL>>, all_text), 0))
        /\ UNCHANGED <<easyocr_reader, readers_built>>

\* the backend raises
backend_raises(i) ==
    LET t == threads[i]
    IN  /\ Background(i)
        /\ t.pc \in BackendPcs
        /\ threads' = [threads EXCEPT ![i].pc = "except",
                                      ![i].calls = Append(t.calls, t.image),
                                      ![i].exc = EngineFailure]
        /\ after_queue' = Append(after_queue, Callback("showerror", i, <<>>, 0))
        /\ UNCHANGED <<easyocr_reader, readers_built>>

\* the second statement of the handler schedules the status line; the
\* thread is still inside its except clause
except_status(i) ==
    /\ Background(i)
    /\ threads[i].pc = "except"
    /\ threads' = [threads EXCEPT ![i].pc = "except_end"]
    /\ after_queue' = Append(after_queue, Callback("status_failed", i, <<>>, 0))
    /\ UNCHANGED <<easyocr_reader, readers_built>>

\* the except clause ends, which unbinds its variable e
except_end(i) ==
    /\ Background(i)
    /\ threads[i].pc = "except_end"
    /\ threads' = [threads EXCEPT ![i].pc = "failed"]
    /\ UNCHANGED <<after_queue, easyocr_reader, readers_built>>

---------------------------------------------------------------------------
(* The OCR handlers of the interactive thread. Each sets the status and    *)
(* calls root.update() before it starts its thread: what is pending runs   *)
(* inside the update, after the handler's checks and before the thread     *)
(* exists.                                                                 *)

Warned(dialog) ==
    /\ Handled(dialog, None, FALSE)
    /\ UNCHANGED <<status_var, ui>>

\* the handler up to its root.update()
Dispatched(kind) ==
    /\ Handled(None, None, FALSE)
    /\ status_var' = Status("Performing OCR",
                            [kind |-> kind, engine |-> selected_engine])
    /\ ui' = <<UpdateFrame(kind, selected_engine)>> \o ui

OcrFrame ==
    /\ InEventLoop
    /\ UNCHANGED <<selected_engine, pdf_document, current_page, total_pages,
                   current_image, selection_start, selection_rect, zoom_level,
                   text_output, opens, saved, ever_loaded, threads,
                   after_queue, easyocr_reader, readers_built>>

ocr_current_page ==
    /\ OcrFrame
    /\ IF current_image = None
       THEN Warned(WarnOpenFirst)
       ELSE Dispatched("page")

ocr_selection ==
    /\ OcrFrame
    /\ IF current_image = None
       THEN Warned(WarnOpenFirst)
       ELSE IF selection_rect = None
       THEN Warned(WarnSelectFirst)
       ELSE Dispatched("selection")

ocr_entire_document ==
    LET t == Truth(pdf_document)
    IN  /\ OcrFrame
        /\ IF t.raised # None
           THEN /\ Handled(None, t.raised, FALSE)
                /\ UNCHANGED <<status_var, ui>>
           ELSE IF ~t.value
           THEN Warned(WarnOpenFirst)
           ELSE Dispatched("document")

\* root.update() returns to the OCR handler, which starts its thread:
\* threading.Thread(target=do_ocr, daemon=True).start()
thread_start ==
    /\ app = "running"
    /\ ui # <<>>
    /\ Head(ui).pc = "update"
    /\ ui' = Tail(ui)
    /\ threads' = Append(threads,
                         Thread(Head(ui).kind, Head(ui).engine, Head(ui).disp))
    /\ UNCHANGED <<deps, app, available_engines, selected_engine,
                   pdf_document, current_page, total_pages, current_image,
                   selection_start, selection_rect, zoom_level, status_var,
                   text_output, opens, saved, messagebox, traceback, rendered,
                   ever_loaded, after_queue, easyocr_reader, readers_built>>

\* f"Page {self.current_page + 1} ({engine})" and the like, evaluated when
\* the callback runs
Source(t) ==
    IF t.kind = "page"
    THEN [what |-> "Page", n |-> current_page + 1, engine |-> t.engine]
    ELSE IF t.kind = "selection"
    THEN [what |-> "Selection", n |-> 0, engine |-> t.engine]
    ELSE [what |-> "Entire Document", n |-> 0, engine |-> t.engine]

UnboundE == Exc("NameError", "cannot access free variable 'e'")

\* the interactive thread runs the oldest callback of root.after
run_after ==
    LET c == Head(after_queue)
        t == threads[c.w]
    IN  /\ after_queue # <<>>
        /\ RunsCallbacks
        /\ after_queue' = Tail(after_queue)
        /\ UNCHANGED <<selected_engine, pdf_document, current_page,
                       total_pages, current_image, selection_start,
                       selection_rect, zoom_level, opens, saved, ui,
                       ever_loaded, threads, easyocr_reader, readers_built>>
        /\ \/ /\ c.cb = "result"
              \* display_ocr_result(text, source)
              /\ text_output' = c.text
              /\ status_var' = Status("OCR complete", Source(t))
              /\ Handled(None, None, FALSE)
           \/ /\ c.cb = "showerror"
              \* messagebox.showerror("OCR Error", str(e)): e is bound only
              \* while the thread is inside its except clause
              /\ IF t.pc \in {"except", "except_end"}
                 THEN Handled(Dialog("error", "OCR Error", t.exc), None, FALSE)
                 ELSE Handled(None, UnboundE, FALSE)
              /\ UNCHANGED <<text_output, status_var>>
           \/ /\ c.cb = "status_failed"
              /\ status_var' = Status("OCR failed.", None)
              /\ Handled(None, None, FALSE)
              /\ UNCHANGED text_output
           \/ /\ c.cb = "progress"
              /\ status_var' = Status("Processing page",
                     [p |-> c.p + 1, total |-> total_pages, engine |-> t.engine])
              /\ Handled(None, None, FALSE)
              /\ UNCHANGED text_output

---------------------------------------------------------------------------
(* Saving the output pane.                                                 *)

RECURSIVE LStrip(_)
\* text.lstrip(), of a text whose pieces hold no other white space than "\n"
LStrip(text) ==
    IF text # <<>> /\ Head(text) = NL THEN LStrip(Tail(text)) ELSE text

RECURSIVE RStrip(_)
RStrip(text) ==
    IF text # <<>> /\ text[Len(text)] = NL
    THEN RStrip(SubSeq(text, 1, Len(text) - 1))
    ELSE text

\* text.strip()
Strip(text) == RStrip(LStrip(text))

WarnNoText == Dialog("warning", "Warning", Exc("text", "No text to save."))

SaveFailed == Dialog("error", "Error", Exc("OSError", "Failed to save"))

SaveUi ==
    UNCHANGED <<selected_engine, pdf_document, current_page, total_pages,
                current_image, selection_start, selection_rect, zoom_level,
                text_output, opens, ever_loaded, threads, after_queue,
                easyocr_reader, readers_built>>

\* save_text up to its file dialog: the pane is read (the Text widget ends
\* what it returns with a newline) and stripped
save_text ==
    LET text == Strip(text_output \o <<NL>>)
    IN  /\ InEventLoop
        /\ SaveUi
        /\ UNCHANGED <<status_var, saved>>
        /\ IF text = <<>>
           THEN /\ Handled(WarnNoText, None, FALSE)
                /\ UNCHANGED ui
           ELSE /\ Handled(None, None, FALSE)
                /\ ui' = <<SaveFrame(text)>> \o ui

\* the bytes a piece of text takes in the file at most: the pieces are
\* ASCII, and the file is opened in text mode, which writes "\n" as
\* os.linesep, one byte or (on Windows) two
Bytes(piece) ==
    CASE piece = "--- Page " -> 9
      [] piece = " ---" -> 4
      [] piece = NL -> 2
      [] OTHER -> 1

\* the first `bytes` bytes of a piece, fewer than the piece has
Cut(piece, bytes) == [of |-> piece, bytes |-> bytes]

\* a file that holds the pieces `text`, and after them what `cut` says of
\* the piece that was not written to its end (None: no such piece)
File(text, cut) == [text |-> text, cut |-> cut]

\* what a failed write of `text` can leave in the file that open() has
\* emptied: the first bytes of the text, any number of them from none to all
Prefixes(text) ==
    {File(SubSeq(text, 1, n), None) : n \in 0..Len(text)}
        \cup UNION {{File(SubSeq(text, 1, n - 1), Cut(text[n], b)) :
                         b \in 1..(Bytes(text[n]) - 1)} : n \in 1..Len(text)}

SaveOutcomes == {"cancelled", "written", "open raises", "write raises"}

\* save_text from the return of asksaveasfilename: no path; or the text read
\* before the dialog is written; or open(file_path, "w") raises and the file
\* is as it was; or open has emptied the file and f.write or the closing of
\* the file raises, with some of the bytes of the text in the file
save_text_write(outcome) ==
    /\ app = "running"
    /\ ui # <<>>
    /\ Head(ui).pc = "asksaveasfilename"
    /\ ui' = Tail(ui)
    /\ SaveUi
    /\ UNCHANGED <<deps, app, available_engines, traceback, rendered>>
    /\ \/ /\ outcome = "cancelled"
          /\ UNCHANGED <<status_var, saved, messagebox>>
       \/ /\ outcome = "written"
          /\ saved' = File(Head(ui).text, None)
          /\ status_var' = Status("Saved to", None)
          /\ UNCHANGED messagebox
       \/ /\ outcome = "open raises"
          /\ messagebox' = SaveFailed
          /\ UNCHANGED <<status_var, saved>>
       \/ /\ outcome = "write raises"
          /\ saved' \in Prefixes(Head(ui).text)
          /\ messagebox' = SaveFailed
          /\ UNCHANGED status_var

---------------------------------------------------------------------------
(* __init__: the state after construction, on every machine.               *)

Init ==
    /\ deps \in [easyocr : ImportOutcomes, winocr : ImportOutcomes]
    /\ LET g == get_available_engines(deps)
       IN  /\ app = IF g.raised THEN "init_failed" ELSE "running"
           /\ available_engines = g.value
           /\ selected_engine = IF g.raised THEN "" ELSE g.value[1]
    /\ pdf_document = None
    /\ current_page = 0
    /\ total_pages = 0
    /\ current_image = None
    /\ selection_start = None
    /\ selection_rect = None
    /\ zoom_level = ZoomInit
    /\ status_var = Status("Ready. Open a PDF to begin.", None)
    /\ text_output = <<>>
    /\ opens = 0
    /\ saved = None
    /\ ui = <<>>
    /\ messagebox = None
    /\ traceback = None
    /\ rendered = FALSE
    /\ ever_loaded = FALSE
    /\ threads = <<>>
    /\ after_queue = <<>>
    /\ easyocr_reader = None
    /\ readers_built = 0

Engines == {TESSERACT, EASYOCR, WINDOWS_OCR}

\* what a backend returns in the runs that do not vary the text
SomeText == <<"x">>

\* the recognized texts of the runs that vary it: up to MaxTextLines lines,
\* each empty, a word, or a line that reads like the header of page 1
SampleLines == {<<>>, <<"x">>, Header(0)}

RECURSIVE TextsOf(_)
TextsOf(n) ==
    IF n = 0 THEN {<<>>}
    ELSE IF n = 1 THEN SampleLines
    ELSE TextsOf(n - 1) \cup
         {t \o <<NL>> \o l : t \in TextsOf(n - 1) \ {<<>>}, l \in SampleLines}
         \cup {<<NL>> \o l : l \in SampleLines}

Texts == TextsOf(MaxTextLines)

\* a file without defects, of n pages
GoodFile(n) == [pages |-> n, bad |-> -1, readable |-> TRUE]

GoodFiles == {GoodFile(n) : n \in 1..MaxPages}

\* a one-page file whose page cannot be rendered
FirstPageBad == [pages |-> 1, bad |-> 0, readable |-> TRUE]

\* a file of MaxPages pages whose last page cannot be rendered
LastPageBad == [pages |-> MaxPages, bad |-> MaxPages - 1, readable |-> TRUE]

\* the files the viewer is run on: unreadable, without pages, without
\* defects, and with a defect on the first or on the last page
ViewerFiles ==
    {Unreadable, [pages |-> 0, bad |-> -1, readable |-> TRUE]}
        \cup GoodFiles \cup {FirstPageBad, LastPageBad}

Origin == [x |-> 0, y |-> 0]

\* two mouse positions, at opposite corners
Corners == {[x |-> 0, y |-> 0], [x |-> MaxCoord, y |-> MaxCoord]}

\* the OCR operations so far: the threads started, and the handlers of the
\* stack that are about to start one
Ops(ts, stack) ==
    Len(ts) + Cardinality({k \in DOMAIN stack : stack[k].pc = "update"})

\* the OCR handlers, as long as the run starts at most `ops` operations
Dispatch(ops) ==
    /\ \/ ocr_current_page
       \/ ocr_selection
       \/ ocr_entire_document
    /\ Ops(threads', ui') <= ops

---------------------------------------------------------------------------
(* The whole program: every handler, every thread step, every input.       *)

Next ==
    \/ open_pdf(None)
    \/ \E f \in Files : open_pdf(f)
    \/ fitz_open
    \/ prev_page
    \/ next_page
    \/ zoom_in
    \/ zoom_out
    \/ \E p \in Points : on_mouse_press(p)
    \/ \E p \in Points : on_mouse_drag(p)
    \/ \E p \in Points : on_mouse_release(p)
    \/ clear_selection
    \/ \E e \in Engines : select_engine(e)
    \/ Dispatch(MaxOps)
    \/ thread_start
    \/ \E i \in DOMAIN threads :
        \/ page_read(i)
        \/ selection_read(i)
        \/ selection_crop(i)
        \/ document_start(i)
        \/ document_progress(i)
        \/ document_load(i)
        \/ document_render(i)
        \/ get_easyocr_reader(i)
        \/ construct_reader(i)
        \/ construct_reader_raises(i)
        \/ return_reader(i)
        \/ \E text \in Texts : backend_returns(i, text)
        \/ backend_raises(i)
        \/ except_status(i)
        \/ except_end(i)
    \/ run_after
    \/ save_text
    \/ \E outcome \in SaveOutcomes : save_text_write(outcome)

Spec == Init /\ [][Next]_vars

---------------------------------------------------------------------------
(* The runs the properties are checked on. Each is a part of Spec: the     *)
(* program on one kind of machine, with the handlers and inputs named.     *)

\* a machine on which both optional engines are installed
InitInstalled == Init /\ deps = [easyocr |-> "ok", winocr |-> "ok"]

\* The viewer: every kind of file, paging, zoom, selection; the OCR handlers run only
\* where they refuse.
NextViewer ==
    \/ open_pdf(None)
    \/ \E f \in ViewerFiles : open_pdf(f)
    \/ fitz_open
    \/ prev_page
    \/ next_page
    \/ zoom_in
    \/ zoom_out
    \/ \E p \in Corners : on_mouse_press(p)
    \/ \E p \in Corners : on_mouse_drag(p)
    \/ \E p \in Corners : on_mouse_release(p)
    \/ clear_selection
    \/ Dispatch(0)

SpecViewer == InitInstalled /\ [][NextViewer]_vars

\* The registry: every machine; engine choice, zoom and the OCR handlers
\* before any file is opened.
NextRegistry ==
    \/ \E e \in Engines : select_engine(e)
    \/ zoom_in
    \/ zoom_out
    \/ Dispatch(0)

SpecRegistry == Init /\ [][NextRegistry]_vars

\* One OCR operation with the local-binary engine, among paging, file opening
\* and selection on the interactive thread.
NextOcr ==
    \/ \E f \in GoodFiles \cup {FirstPageBad} : open_pdf(f)
    \/ fitz_open
    \/ prev_page
    \/ next_page
    \/ on_mouse_press(Origin)
    \/ on_mouse_release(Origin)
    \/ clear_selection
    \/ Dispatch(MaxOps)
    \/ thread_start
    \/ \E i \in DOMAIN threads :
        \/ page_read(i)
        \/ selection_read(i)
        \/ selection_crop(i)
        \/ document_start(i)
        \/ document_progress(i)
        \/ document_load(i)
        \/ document_render(i)
        \/ backend_returns(i, SomeText)
        \/ backend_raises(i)
        \/ except_status(i)
        \/ except_end(i)
    \/ run_after

SpecOcr == InitInstalled /\ [][NextOcr]_vars

\* Single-page operations with any engine, several in flight, on one file.
NextReader ==
    \/ open_pdf(GoodFile(1))
    \/ fitz_open
    \/ \E e \in Engines : select_engine(e)
    \/ ocr_current_page /\ Ops(threads', ui') <= MaxReaderOps
    \/ thread_start
    \/ \E i \in DOMAIN threads :
        \/ page_read(i)
        \/ get_easyocr_reader(i)
        \/ construct_reader(i)
        \/ construct_reader_raises(i)
        \/ return_reader(i)
        \/ backend_returns(i, SomeText)
        \/ backend_raises(i)
        \/ except_status(i)
        \/ except_end(i)
    \/ run_after

SpecReader == InitInstalled /\ [][NextReader]_vars

\* One whole-document operation on a file that stays open, the backend
\* returning any text for each page.
NextDocument ==
    \/ \E f \in GoodFiles : open_pdf(f) /\ opens = 0
    \/ fitz_open
    \/ ocr_entire_document /\ Ops(threads', ui') <= 1
    \/ thread_start
    \/ \E i \in DOMAIN threads :
        \/ document_start(i)
        \/ document_progress(i)
        \/ document_load(i)
        \/ document_render(i)
        \/ \E text \in Texts : backend_returns(i, text)
        \/ backend_raises(i)
        \/ except_status(i)
        \/ except_end(i)
    \/ run_after

SpecDocument == InitInstalled /\ [][NextDocument]_vars

---------------------------------------------------------------------------
(* Properties.                                                             *)

\* what an engine sees of a bitmap: its pixels, not which object holds them
Pixels(b) ==
    IF b = None THEN None
    ELSE [file |-> b.file, page |-> b.page, zoom |-> b.zoom, crop |-> b.crop]

\* C1: the bitmap, and for selection OCR the rectangle, that the thread of a
\* single-page or selection OCR hands to the engine are the ones that were
\* current when the operation was dispatched, whatever the interactive thread
\* does in between; the thread never finds the selection gone.
C1_InputsCapturedAtDispatch ==
    \A i \in DOMAIN threads :
        LET t == threads[i]
        IN  /\ (t.kind = "page" /\ t.image # None)
                   => Pixels(t.image) = Pixels(t.disp.image)
            /\ (t.kind = "selection" /\ t.rect # None) => t.rect = t.disp.rect
            /\ (t.kind = "selection" /\ t.image # None)
                   => Pixels(t.image) = Pixels(Crop(t.disp.image, t.disp.rect))
            /\ t.kind = "selection"
                   => t.exc # Exc("TypeError", "cannot unpack NoneType")

\* C2: easyocr.Reader is constructed at most once, and every neural engine
\* call uses that one instance.
C2_ReaderConstructedOnce ==
    /\ readers_built <= 1
    /\ \A i \in DOMAIN threads :
           threads[i].reader # None => threads[i].reader = [id |-> 1]

\* C3: a whole-document OCR calls the engine on pages 0, 1, ... of the
\* document that was open at dispatch, in this order, each once, and when it
\* succeeds on all pageCount of them; a change of document never fails it.
C3_PagesOfDispatchedDocument ==
    \A i \in DOMAIN threads :
        LET t == threads[i]
        IN  t.kind = "document" =>
                /\ Len(t.calls) <= t.disp.pages
                /\ \A k \in DOMAIN t.calls :
                       Pixels(t.calls[k])
                           = Pixels(Bitmap(t.disp.doc, k - 1, DocZoom))
                /\ t.pc = "done" => Len(t.calls) = t.disp.pages
                /\ t.exc \notin {DocumentClosed, PageNotInDocument}

\* OCR Selection refuses: a warning, and no thread is started
SelectionRefused ==
    ~ ENABLED (/\ ocr_selection
               /\ ~ (/\ messagebox' \in {WarnOpenFirst, WarnSelectFirst}
                     /\ ui' = ui
                     /\ threads' = threads))

\* C4: a selection rectangle always belongs to the bitmap now displayed;
\* a handler that rendered a page leaves no rectangle and no drag in
\* progress; and while there is no rectangle OCR Selection only warns.
C4_SelectionOfDisplayedBitmap ==
    /\ selection_rect # None
           => /\ current_image # None
              /\ selection_rect.img = current_image
    /\ rendered => selection_rect = None /\ selection_start = None
    /\ selection_rect = None => SelectionRefused

\* C4 happens: a rectangle was drawn on page 1, Next rendered page 2, the
\* rectangle is gone and OCR Selection only warns.
C4_Witness ==
    /\ rendered
    /\ status_var.tag = "Selection"
    /\ current_page = 1
    /\ current_image.page = 1
    /\ selection_rect = None
    /\ SelectionRefused

\* C5: no document is installed, or 0 <= current_page <= total_pages - 1.
C5_CurrentPageInRange ==
    \/ pdf_document = None
    \/ 0 <= current_page /\ current_page <= total_pages - 1

\* C6: an open_pdf that fails (it shows the "Failed to open PDF" dialog)
\* changes none of the document, page count, page index, zoom, bitmap and
\* selection, and the document that was open can still be rendered.
C6_FailedOpenChangesNothing ==
    [][ /\ ((\E f \in Files : open_pdf(f)) /\ messagebox' # None)
            => /\ UNCHANGED <<pdf_document, total_pages, current_page,
                              zoom_level, current_image, selection_start,
                              selection_rect>>
               /\ pdf_document # None
                      => Truth(pdf_document').raised = None
        /\ (fitz_open /\ messagebox' # None)
            => /\ pdf_document' = Head(ui).doc
               /\ UNCHANGED <<total_pages, current_page, zoom_level,
                              current_image, selection_start, selection_rect>>
               /\ pdf_document' # None
                      => Truth(pdf_document').raised = None ]_vars

\* C7: when the engine raised, the callback scheduled for the error shows a
\* dialog with that error, the next one sets the status to "OCR failed.",
\* the thread calls the engine no more, and no result is ever delivered
\* for it.
C7_FailureReported ==
    [][ /\ (/\ run_after
             /\ Head(after_queue).cb = "showerror"
             /\ threads[Head(after_queue).w].exc = EngineFailure)
            => messagebox' = Dialog("error", "OCR Error", EngineFailure)
        /\ (/\ run_after
             /\ Head(after_queue).cb = "status_failed"
             /\ threads[Head(after_queue).w].exc = EngineFailure)
            => status_var' = Status("OCR failed.", None)
        /\ \A i \in DOMAIN threads :
               threads[i].exc = EngineFailure
                   => /\ threads'[i].calls = threads[i].calls
                      /\ \A k \in DOMAIN after_queue' :
                             ~ (/\ after_queue'[k].w = i
                                /\ after_queue'[k].cb = "result") ]_vars

\* the header of page N (counted from 1) as a reader of the output sees it
HeaderOfPage(N) == <<"--- Page ">> \o Dec(N) \o <<" ---">>

\* the tokens of s from position `from`, `len` of them
Part(s, from, len) == SubSeq(s, from, from + len - 1)

\* how often h occurs in s
Occurrences(h, s) ==
    Cardinality({k \in 1..Len(s) : /\ k + Len(h) - 1 <= Len(s)
                                   /\ Part(s, k, Len(h)) = h})

\* no line of the text reads like a page header
HeaderFree(text) == \A k \in DOMAIN text : text[k] # "--- Page "

RECURSIVE SectionStart(_, _)
\* where the section of page N starts in the text made of the given texts
SectionStart(texts, N) ==
    IF N = 1 THEN 1
    ELSE SectionStart(texts, N - 1)
             + Len(HeaderOfPage(N - 1)) + Len(texts[N - 1]) + 3

\* D is, for N = 1, 2, ... in this order: the header of page N, a newline,
\* the text of page N, a newline, and one more newline before the next
Layout(D, texts) ==
    LET n == Len(texts)
    IN  /\ n >= 1
        /\ Len(D) = SectionStart(texts, n) + Len(HeaderOfPage(n))
                        + Len(texts[n]) + 1
        /\ \A N \in 1..n :
               LET s == SectionStart(texts, N)
                   h == Len(HeaderOfPage(N))
                   l == Len(texts[N])
               IN  /\ Part(D, s, h) = HeaderOfPage(N)
                   /\ D[s + h] = NL
                   /\ Part(D, s + h + 1, l) = texts[N]
                   /\ D[s + h + l + 1] = NL
                   /\ N < n => D[s + h + l + 2] = NL

\* the results of whole-document operations that wait for the interactive
\* thread: the text handed over, the page texts the engine returned, and
\* the page count at dispatch
DocumentResults ==
    {[text |-> after_queue[k].text,
      texts |-> threads[after_queue[k].w].texts,
      pages |-> threads[after_queue[k].w].disp.pages] :
        k \in {j \in DOMAIN after_queue :
                  /\ after_queue[j].cb = "result"
                  /\ threads[after_queue[j].w].kind = "document"}}

\* C8 as stated: whatever the page texts, the delivered text holds exactly
\* one header "--- Page N ---" for each N in 1..pageCount and no other, in
\* ascending order, each followed by its page's text, sections a blank line
\* apart.
C8_ExactlyOneHeaderPerPage ==
    \A r \in DocumentResults :
        /\ Len(r.texts) = r.pages
        /\ \A N \in 1..(r.pages + 1) :
               Occurrences(HeaderOfPage(N), r.text)
                   = IF N <= r.pages THEN 1 ELSE 0
        /\ Layout(r.text, r.texts)

\* C8 as it holds: the delivered text is one section per page N = 1 ..
\* pageCount in ascending order, each the header "--- Page N ---", a
\* newline, the page's text and a newline, with one more newline between
\* consecutive sections; it holds exactly one header per page and no other
\* when no page text itself holds a header line.
C8_OneSectionPerPage ==
    \A r \in DocumentResults :
        /\ Len(r.texts) = r.pages
        /\ Layout(r.text, r.texts)
        /\ (\A N \in 1..r.pages : HeaderFree(r.texts[N]))
               => \A N \in 1..(r.pages + 1) :
                      Occurrences(HeaderOfPage(N), r.text)
                          = IF N <= r.pages THEN 1 ELSE 0

\* C8 happens: a two-page document was recognized, the text of its second
\* page holds a line that reads like the header of page 1, and the result
\* waits for the interactive thread.
C8_Witness ==
    \E r \in DocumentResults :
        /\ r.pages = 2
        /\ r.texts[1] = <<"x">>
        /\ ~ HeaderFree(r.texts[2])
        /\ Occurrences(HeaderOfPage(1), r.text) = 2

\* the place of an engine in the order local, neural, platform
Rank(e) ==
    CASE e = TESSERACT -> 1
      [] e = EASYOCR -> 2
      [] e = WINDOWS_OCR -> 3

\* C9: where each optional dependency is present or absent, the engine list
\* starts with the local engine, holds the neural and the platform engine
\* exactly when their dependency is present, in the order local, neural,
\* platform; and the engine selected at startup is its first element.
C9_EngineList ==
    /\ app = "running" => selected_engine = available_engines[1]
    /\ [](deps \in [easyocr : {"ok", "ImportError"},
                    winocr : {"ok", "ImportError"}]
            => /\ app = "running"
               /\ available_engines # <<>>
               /\ available_engines[1] = TESSERACT
               /\ \A i, j \in DOMAIN available_engines :
                      i < j => Rank(available_engines[i])
                                   < Rank(available_engines[j])
               /\ (\E i \in DOMAIN available_engines :
                       available_engines[i] = EASYOCR)
                      <=> deps.easyocr = "ok"
               /\ (\E i \in DOMAIN available_engines :
                       available_engines[i] = WINDOWS_OCR)
                      <=> deps.winocr = "ok")

\* C9 happens: the neural dependency is absent and the platform one present;
\* the list is local, platform and the local engine is selected.
C9_Witness ==
    /\ deps = [easyocr |-> "ImportError", winocr |-> "ok"]
    /\ available_engines = <<TESSERACT, WINDOWS_OCR>>
    /\ selected_engine = TESSERACT
    /\ app = "running"

\* C10: until a document has been opened successfully, each of the three
\* OCR operations shows the "open a PDF first" warning and starts no thread.
C10_NoDocumentNoOcr ==
    [][ (/\ ~ ever_loaded
         /\ ocr_current_page \/ ocr_selection \/ ocr_entire_document)
            => /\ messagebox' = WarnOpenFirst
               /\ ui' = ui
               /\ threads' = threads ]_vars

---------------------------------------------------------------------------
(* The adapter called directly.                                            *)

\* the names perform_ocr is called with: the three engines, and two that
\* are none of them
EngineNames == Engines \cup {"tesseract", ""}

\* a caller runs OCREngine.perform_ocr(self.current_image, name) off the
\* interactive thread, as do_ocr of ocr_current_page does with the name
\* of the combobox
adapter_call(name) ==
    /\ app = "running"
    /\ current_image # None
    /\ threads' = Append(threads, Thread("page", name, Snapshot))
    /\ UNCHANGED <<uivars, after_queue, easyocr_reader, readers_built>>

\* perform_ocr with any name, on the one page of an open file
NextAdapter ==
    \/ open_pdf(GoodFile(1)) /\ opens = 0
    \/ fitz_open
    \/ \E name \in EngineNames :
           adapter_call(name) /\ Len(threads') <= MaxReaderOps
    \/ \E i \in DOMAIN threads :
        \/ page_read(i)
        \/ get_easyocr_reader(i)
        \/ construct_reader(i)
        \/ construct_reader_raises(i)
        \/ return_reader(i)
        \/ \E text \in SampleLines : backend_returns(i, text)
        \/ backend_raises(i)
        \/ except_status(i)
        \/ except_end(i)
    \/ run_after

SpecAdapter == InitInstalled /\ [][NextAdapter]_vars

\* the places of a thread inside the backend of an engine
PlacesOf(name) ==
    CASE name = TESSERACT -> {"_tesseract_ocr"}
      [] name = EASYOCR -> {"get_easyocr_reader", "Reader", "return", "readtext"}
      [] name = WINDOWS_OCR -> {"_windows_ocr"}
      [] OTHER -> {}

AllPlaces == PlacesOf(TESSERACT) \cup PlacesOf(EASYOCR) \cup PlacesOf(WINDOWS_OCR)

\* the callbacks of the queue q that thread i scheduled, in order
CallbacksOf(q, i) == SelectSeq(q, LAMBDA c : c.w = i)

\* C11: perform_ocr with a name that is none of the three engines raises the
\* unknown-engine error at once and enters no backend; with the name of an
\* engine it enters the backend of this engine and no other, and it is this
\* backend that is called. When the backend returns a text, it returns from
\* the backend of the thread's engine, this text is what the caller hands to
\* the interactive thread, and it is what the interactive thread then puts
\* in the output pane.
C11_AdapterDispatch ==
    /\ [](\A i \in DOMAIN threads :
            LET t == threads[i]
            IN  /\ t.pc \in AllPlaces => t.pc \in PlacesOf(t.engine)
                /\ t.engine \notin Engines
                       => /\ t.calls = <<>> /\ t.texts = <<>>
                          /\ t.reader = None
                          /\ t.pc \in {"start", "except", "except_end", "failed"}
                          /\ t.pc # "start"
                                 => t.exc = Exc("ValueError",
                                                "Unknown OCR engine")
                /\ t.engine \in Engines
                       => /\ t.exc # Exc("ValueError", "Unknown OCR engine")
                          /\ t.reader # None => t.engine = EASYOCR)
    /\ [][\A i \in DOMAIN threads :
            /\ threads'[i].calls # threads[i].calls
                   => threads[i].pc \in PlacesOf(threads[i].engine)
            /\ Len(threads'[i].texts) > Len(threads[i].texts)
                   => LET q == CallbacksOf(after_queue', i)
                      IN  /\ q # <<>>
                          /\ q[Len(q)].cb = "result"
                          /\ q[Len(q)].text
                                 = threads'[i].texts[Len(threads'[i].texts)]
            /\ \A text \in SampleLines :
                   backend_returns(i, text)
                       => /\ threads[i].pc \in PlacesOf(threads[i].engine)
                          /\ after_queue'
                                 = Append(after_queue,
                                          [cb |-> "result", w |-> i,
                                           text |-> text, p |-> 0])
            /\ (/\ run_after
                /\ Head(after_queue).cb = "result"
                /\ Head(after_queue).w = i)
                   => /\ threads[i].texts # <<>>
                      /\ text_output' = threads[i].texts[Len(threads[i].texts)]
       ]_vars

\* C11 happens: one call with an unknown name has failed without a backend
\* call, and one with the neural engine's name has returned its text, which
\* the output pane holds.
C11_Witness ==
    \E i, j \in DOMAIN threads :
        /\ threads[i].engine = "tesseract"
        /\ threads[i].pc = "failed"
        /\ threads[i].calls = <<>>
        /\ threads[j].engine = EASYOCR
        /\ threads[j].pc = "done"
        /\ threads[j].texts = <<<<"x">>>>
        /\ after_queue = <<>>
        /\ text_output = <<"x">>

\* C12: with a document of at least one page installed, prev_page at index 0
\* and next_page at the last index leave the index alone; anywhere else
\* prev_page lowers and next_page raises it by exactly one, and the step
\* ends where the other handler leads back (not at its boundary).
C12_PagingAtTheBoundaries ==
    [][ (pdf_document # None /\ total_pages >= 1)
            => /\ prev_page
                   => /\ current_page' = IF current_page = 0 THEN 0
                                         ELSE current_page - 1
                      /\ current_page > 0 => current_page' < total_pages' - 1
               /\ next_page
                   => /\ current_page' = IF current_page = total_pages - 1
                                         THEN current_page
                                         ELSE current_page + 1
                      /\ current_page < total_pages - 1 => current_page' > 0
      ]_vars

\* C13: the zoom factor, counted in quarters, is always between 0.25 and
\* 3.0; zoom_in at 3.0 and zoom_out at 0.25 leave it alone, every other
\* zoom_in adds and every other zoom_out takes away exactly one quarter, and
\* neither changes the page index; open_pdf leaves it at a value in range.
C13_ZoomClamped ==
    /\ [](zoom_level \in 1..12)
    /\ [][ /\ zoom_in => /\ zoom_level' = IF zoom_level = 12 THEN 12
                                          ELSE zoom_level + 1
                         /\ current_page' = current_page
           /\ zoom_out => /\ zoom_level' = IF zoom_level = 1 THEN 1
                                           ELSE zoom_level - 1
                          /\ current_page' = current_page
           /\ (zoom_level' # zoom_level /\ ~ zoom_in /\ ~ zoom_out)
                  => /\ fitz_open
                     /\ zoom_level' = 4
       ]_vars

\* C13 happens: on page 2 of a document the zoom has been driven to 3.0 and
\* the page just rendered at this zoom.
C13_Witness ==
    /\ zoom_level = 12
    /\ current_page = 1
    /\ rendered
    /\ current_image.zoom = 12

---------------------------------------------------------------------------
(* The selection tracker on its own.                                       *)

\* One document; presses, drags and releases at every point, clearing,
\* paging and zoom.
NextSelection ==
    \/ open_pdf(GoodFile(MaxPages)) /\ opens = 0
    \/ fitz_open
    \/ prev_page
    \/ next_page
    \/ zoom_in
    \/ zoom_out
    \/ \E p \in Points : on_mouse_press(p)
    \/ \E p \in Points : on_mouse_drag(p)
    \/ \E p \in Points : on_mouse_release(p)
    \/ clear_selection

SpecSelection == InitInstalled /\ [][NextSelection]_vars

\* C14: the rectangle a release stores has x1 <= x2 and y1 <= y2, its sides
\* are the coordinates of the press and the release point, and it is the
\* rectangle stored when the two points change roles.
C14_RectangleNormalized ==
    [][ \A p \in Points :
            (on_mouse_release(p) /\ selection_start # None)
                => LET r == selection_rect'
                       s == selection_start
                   IN  /\ r # None
                       /\ r.x1 <= r.x2 /\ r.y1 <= r.y2
                       /\ {r.x1, r.x2} = {s.x, p.x}
                       /\ {r.y1, r.y2} = {s.y, p.y}
                       /\ r = Normalized(p, s, current_image)
      ]_vars

\* C14 happens: the press was right of and above the release, and the
\* rectangle stored runs from the left upper to the right lower corner.
C14_Witness ==
    /\ selection_start = [x |-> MaxCoord, y |-> 0]
    /\ selection_rect # None
    /\ selection_rect.x1 = 0 /\ selection_rect.y1 = 0
    /\ selection_rect.x2 = MaxCoord /\ selection_rect.y2 = MaxCoord
    /\ status_var.tag = "Selection"

\* the state of the selection tracker, read off the two fields
Tracker ==
    IF selection_rect # None THEN "selected"
    ELSE IF selection_start # None THEN "dragging"
    ELSE "idle"

\* a press, a release at some point
Press == \E p \in Points : on_mouse_press(p)
Release == \E p \in Points : on_mouse_release(p)

\* C15: the tracker moves only from idle to dragging on a press, from
\* dragging to dragging on a drag, from dragging to selected on a release,
\* and from selected to idle on a clear or a render; a press on a displayed
\* page starts a drag, during which there is no finalized rectangle; and a
\* release stores a rectangle only when a drag is in progress.
C15_TrackerTransitions ==
    [][ /\ Tracker' # Tracker
            => \/ Tracker = "idle" /\ Tracker' = "dragging" /\ Press
               \/ Tracker = "dragging" /\ Tracker' = "selected" /\ Release
               \/ /\ Tracker = "selected" /\ Tracker' = "idle"
                  /\ clear_selection \/ rendered'
        /\ (Press /\ current_image # None)
            => Tracker' = "dragging" /\ selection_rect' = None
        /\ (Release /\ selection_rect' # selection_rect)
            => Tracker = "dragging"
      ]_vars

\* the engine list holds engine e
Listed(e) == \E k \in DOMAIN available_engines : available_engines[k] = e

\* C16: whatever the import of an optional dependency does, construction
\* gets its engine list: no error leaves get_available_engines, the local
\* engine is listed, and the neural and the platform engine are listed
\* exactly when their own import succeeded.
C16_ProbeFailuresSwallowed ==
    /\ app = "running"
    /\ Listed(TESSERACT)
    /\ Listed(EASYOCR) <=> deps.easyocr = "ok"
    /\ Listed(WINDOWS_OCR) <=> deps.winocr = "ok"

\* a rectangle with something inside
NonEmpty(r) == r.x1 < r.x2 /\ r.y1 < r.y2

\* C17: selection OCR starts a thread only for a rectangle that is not
\* empty, and the rectangle the thread hands to the crop is not empty; for
\* any other rectangle, such as that of a click without movement, it warns.
\* (All points of this model lie on the bitmap; its extent is not modelled.)
C17_CropRectangleNonEmpty ==
    \A i \in DOMAIN threads :
        threads[i].kind = "selection"
            => /\ threads[i].disp.rect # None
               /\ NonEmpty(threads[i].disp.rect)
               /\ threads[i].rect # None => NonEmpty(threads[i].rect)

\* the k-th callback of the queue is a progress report
IsProgress(k) == after_queue[k].cb = "progress"

\* C18: the whole-document thread schedules the progress report of page k
\* after the engine call of page k - 1 and before that of page k, one for
\* each page when it succeeds; the interactive thread runs callbacks oldest
\* first, and among the waiting callbacks of one operation the progress
\* reports come in ascending page order, before its result or failure.
C18_ProgressBeforeEachCall ==
    /\ [](\A i \in DOMAIN threads :
            LET t == threads[i]
            IN  t.kind = "document"
                    => /\ Len(t.calls) <= t.reported
                       /\ t.reported <= Len(t.calls) + 1
                       /\ t.pc = "done" => t.reported = t.disp.pages)
    /\ [](\A a, b \in DOMAIN after_queue :
            (a < b /\ after_queue[a].w = after_queue[b].w /\ IsProgress(b))
                => /\ IsProgress(a)
                   /\ after_queue[a].p < after_queue[b].p)
    /\ [](\A k \in DOMAIN after_queue :
            IsProgress(k)
                => after_queue[k].p < threads[after_queue[k].w].reported)
    /\ [][ /\ Len(after_queue') < Len(after_queue)
               => after_queue' = Tail(after_queue)
           /\ \A i \in DOMAIN threads :
                  threads'[i].reported # threads[i].reported
                      => /\ threads'[i].reported = Len(threads[i].calls) + 1
                         /\ after_queue' = Append(after_queue,
                                [cb |-> "progress", w |-> i, text |-> <<>>,
                                 p |-> Len(threads[i].calls)])
       ]_vars

\* C18 happens: both pages of a document are recognized, the report of
\* page 2 still waits in front of the result, and that of page 1 is shown.
C18_Witness ==
    /\ Len(after_queue) = 2
    /\ IsProgress(1) /\ after_queue[1].p = 1
    /\ after_queue[2].cb = "result"
    /\ threads[1].reported = 2
    /\ Len(threads[1].calls) = 2
    /\ status_var.tag = "Processing page"
    /\ status_var.arg.p = 1

---------------------------------------------------------------------------
(* Delivery of outcomes.                                                   *)

\* any step of thread i, with any engine
ThreadStep(i) ==
    \/ page_read(i)
    \/ selection_read(i)
    \/ selection_crop(i)
    \/ document_start(i)
    \/ document_progress(i)
    \/ document_load(i)
    \/ document_render(i)
    \/ get_easyocr_reader(i)
    \/ construct_reader(i)
    \/ construct_reader_raises(i)
    \/ return_reader(i)
    \/ \E text \in SampleLines : backend_returns(i, text)
    \/ backend_raises(i)
    \/ except_status(i)
    \/ except_end(i)

\* The three OCR operations, each with any engine and several in flight, on
\* one open file, once a selection has been made on its page. The engine is
\* chosen as long as an operation can still be dispatched: a choice after
\* the last one is read by no operation.
NextDelivery ==
    \/ open_pdf(GoodFile(1)) /\ opens = 0
    \/ fitz_open
    \/ on_mouse_press(Origin) /\ selection_rect = None
    \/ /\ on_mouse_release([x |-> MaxCoord, y |-> MaxCoord])
       /\ selection_rect = None
    \/ \E e \in Engines :
           select_engine(e) /\ Ops(threads, ui) < MaxReaderOps
    \/ Dispatch(MaxReaderOps) /\ selection_rect # None
    \/ thread_start
    \/ \E i \in DOMAIN threads : ThreadStep(i)
    \/ run_after

\* fitz.open and root.update() return, every started thread keeps running,
\* every engine call returns or raises, and the Tk event loop keeps running
\* the callbacks handed to it.
SpecDelivery ==
    /\ InitInstalled
    /\ [][NextDelivery]_vars
    /\ WF_vars(fitz_open)
    /\ WF_vars(thread_start)
    /\ WF_vars(run_after)
    /\ \A i \in 1..MaxReaderOps : WF_vars(ThreadStep(i))

\* thread i exists
Started(i) == i \in DOMAIN threads

\* thread i has ended and the interactive thread has run all it scheduled
Delivered(i) ==
    /\ Started(i)
    /\ threads[i].pc \in {"done", "failed"}
    /\ CallbacksOf(after_queue, i) = <<>>

\* text is the complete text of what thread t recognized
TextOf(t, text) ==
    IF t.kind = "document" THEN Layout(text, t.texts)
    ELSE t.texts # <<>> /\ text = t.texts[Len(t.texts)]

C20_StatusNamesRecognizedPage ==
    [][ (/\ run_after
         /\ Head(after_queue).cb = "result"
         /\ threads[Head(after_queue).w].kind = "page")
            => /\ status_var'.tag = "OCR complete"
               /\ status_var'.arg.what = "Page"
               /\ status_var'.arg.n
                      = threads[Head(after_queue).w].calls[1].page + 1
      ]_vars

====
